---- MODULE Spec2Model ----
(***************************************************************************)
(* Model of token-swap/program/src/curve/math.rs: the fixed-point          *)
(* PreciseNumber type over the 256-bit unsigned integer U256, its checked  *)
(* arithmetic, integer power, Taylor-series fractional power and Newton    *)
(* root approximation.                                                     *)
(*                                                                         *)
(* TLC integers are 32 bits wide, while the program computes with 128-bit  *)
(* and 256-bit integers and ONE = 10^10.  Every program integer is         *)
(* therefore a natural number held as a sequence of limbs (least           *)
(* significant first, no leading zero limb, zero is << >>), so that the    *)
(* program's constants and its overflow points keep their real values.     *)
(***************************************************************************)
EXTENDS Integers, Sequences, FiniteSets, TLC

(***************************************************************************)
(* Natural numbers of arbitrary size.                                      *)
(***************************************************************************)
LimbBase == 10000

\* F of the value of x: a local binding
With(x, F(_)) == CHOOSE r \in {F(v) : v \in {x}} : TRUE

Max2(m, n) == IF m >= n THEN m ELSE n
Min2(m, n) == IF m <= n THEN m ELSE n

\* The largest and the smallest element of a nonempty set of integers
MaxOf(S) == CHOOSE m \in S : \A x \in S : x <= m
MinOf(S) == CHOOSE m \in S : \A x \in S : m <= x

\* s without its leading zero limbs
Norm(s) ==
    LET nz == {i \in 1..Len(s) : s[i] # 0}
    IN  IF nz = {} THEN << >> ELSE SubSeq(s, 1, MaxOf(nz))

RECURSIVE FromInt(_)
FromInt(n) ==
    IF n = 0 THEN << >>
    ELSE <<n % LimbBase>> \o FromInt(n \div LimbBase)

Limb(a, i) == IF i >= 1 /\ i <= Len(a) THEN a[i] ELSE 0

\* Cmp(a, b) is -1, 0 or 1 as a < b, a = b or a > b: the longer number is
\* the larger one, and of two numbers of one length the one with the larger
\* limb at the highest place where they differ
Cmp(a, b) ==
    IF Len(a) < Len(b) THEN -1
    ELSE IF Len(a) > Len(b) THEN 1
    ELSE LET differ == {i \in 1..Len(a) : a[i] # b[i]}
         IN  IF differ = {} THEN 0
             ELSE IF a[MaxOf(differ)] < b[MaxOf(differ)] THEN -1
             ELSE 1

Lt(a, b) == Cmp(a, b) < 0
Le(a, b) == Cmp(a, b) <= 0

(***************************************************************************)
(* The passes over the limbs below work on a range lo..hi of places and    *)
(* split it in two halves, the half the carry comes from first; each       *)
(* returns <<the limbs of the range, the carry out of it>>.  Halving keeps *)
(* the nesting of the evaluation logarithmic in the number of limbs.       *)
(***************************************************************************)
RECURSIVE AddRange(_, _, _, _, _)
AddRange(a, b, lo, hi, carry) ==
    IF lo = hi
    THEN LET t == Limb(a, lo) + Limb(b, lo) + carry
         IN  <<<<t % LimbBase>>, t \div LimbBase>>
    ELSE LET mid == (lo + hi) \div 2
             low == AddRange(a, b, lo, mid, carry)
             high == AddRange(a, b, mid + 1, hi, low[2])
         IN  <<low[1] \o high[1], high[2]>>

Add(a, b) ==
    LET n == Max2(Len(a), Len(b))
    IN  IF n = 0 THEN << >>
        ELSE With(AddRange(a, b, 1, n, 0), LAMBDA s :
                 IF s[2] = 0 THEN s[1] ELSE Append(s[1], s[2]))

\* Sub(a, b) is a - b, for a >= b
RECURSIVE SubRange(_, _, _, _, _)
SubRange(a, b, lo, hi, borrow) ==
    IF lo = hi
    THEN LET t == a[lo] - Limb(b, lo) - borrow
         IN  IF t < 0 THEN <<<<t + LimbBase>>, 1>> ELSE <<<<t>>, 0>>
    ELSE LET mid == (lo + hi) \div 2
             low == SubRange(a, b, lo, mid, borrow)
             high == SubRange(a, b, mid + 1, hi, low[2])
         IN  <<low[1] \o high[1], high[2]>>

Sub(a, b) ==
    IF a = << >> THEN << >> ELSE Norm(SubRange(a, b, 1, Len(a), 0)[1])

\* MulSmall(a, d) is a * d, for a limb d
RECURSIVE MulSmallRange(_, _, _, _, _)
MulSmallRange(a, d, lo, hi, carry) ==
    IF lo = hi
    THEN LET t == a[lo] * d + carry
         IN  <<<<t % LimbBase>>, t \div LimbBase>>
    ELSE LET mid == (lo + hi) \div 2
             low == MulSmallRange(a, d, lo, mid, carry)
             high == MulSmallRange(a, d, mid + 1, hi, low[2])
         IN  <<low[1] \o high[1], high[2]>>

MulSmall(a, d) ==
    IF a = << >> \/ d = 0 THEN << >>
    ELSE With(MulSmallRange(a, d, 1, Len(a), 0), LAMBDA p :
             IF p[2] = 0 THEN p[1] ELSE Append(p[1], p[2]))

\* The sum of the products a[i] * b[k + 1 - i] for i in lo..hi: the part of
\* the column k of the product a * b.  A column of up to 21 products fits
\* in a TLC integer, which is enough for two U256 values.
RECURSIVE ColumnSum(_, _, _, _, _)
ColumnSum(a, b, k, lo, hi) ==
    IF lo > hi THEN 0
    ELSE IF lo = hi THEN a[lo] * b[k + 1 - lo]
    ELSE LET mid == (lo + hi) \div 2
         IN  ColumnSum(a, b, k, lo, mid) + ColumnSum(a, b, k, mid + 1, hi)

Column(a, b, k) ==
    ColumnSum(a, b, k, Max2(1, k + 1 - Len(b)), Min2(k, Len(a)))

\* The limbs of the columns lo..hi of a * b, with the carry into lo
RECURSIVE MulRange(_, _, _, _, _)
MulRange(a, b, lo, hi, carry) ==
    IF lo = hi
    THEN With(Column(a, b, lo) + carry, LAMBDA t :
             <<<<t % LimbBase>>, t \div LimbBase>>)
    ELSE LET mid == (lo + hi) \div 2
             low == MulRange(a, b, lo, mid, carry)
             high == MulRange(a, b, mid + 1, hi, low[2])
         IN  <<low[1] \o high[1], high[2]>>

Mul(a, b) ==
    IF a = << >> \/ b = << >> THEN << >>
    ELSE With(MulRange(a, b, 1, Len(a) + Len(b) - 1, 0), LAMBDA p :
             Norm(p[1] \o FromInt(p[2])))

\* The limbs of r at the place n and above, as one integer, for r of at
\* most n + 1 limbs
TopLimbs(r, n) ==
    IF Len(r) > n THEN r[n + 1] * LimbBase + r[n]
    ELSE IF Len(r) = n THEN r[n]
    ELSE 0

\* The quotient limb of r by b, for r < b * LimbBase and b with a highest
\* limb of LimbBase \div 2 or more: the estimate from the highest limbs is
\* the limb or exceeds it by at most two (Knuth, algorithm D)
QuotDigit(r, b) ==
    With(Min2(LimbBase - 1, TopLimbs(r, Len(b)) \div b[Len(b)]), LAMBDA est :
        MaxOf({d \in Max2(0, est - 2)..est : Le(MulSmall(b, d), r)}))

\* One step of the long division by b # 0: the limb x is brought down to
\* the remainder r < b; <<the quotient limb, the new remainder>>
DivStep(x, b, r) ==
    With(Norm(<<x>> \o r), LAMBDA r1 :
    With(IF Len(r1) < Len(b) THEN 0 ELSE QuotDigit(r1, b), LAMBDA d :
    With(MulSmall(b, d), LAMBDA p :
         <<<<d>>, Sub(r1, p)>>)))

\* The long division of the limbs lo..hi of a, the remainder r coming from
\* the limbs above hi: the higher half first, and the limbs of the quotient
\* in the order the division finds them, the highest first
RECURSIVE DivRange(_, _, _, _, _)
DivRange(a, b, lo, hi, r) ==
    IF lo = hi THEN DivStep(a[lo], b, r)
    ELSE LET mid == (lo + hi) \div 2
             high == DivRange(a, b, mid + 1, hi, r)
             low == DivRange(a, b, lo, mid, high[2])
         IN  <<high[1] \o low[1], low[2]>>

\* The division by one limb d # 0 of the limbs lo..hi of a, the remainder
\* limb r coming from the limbs above hi; the quotient the highest limb first
RECURSIVE DivSmallRange(_, _, _, _, _)
DivSmallRange(a, d, lo, hi, r) ==
    IF lo = hi
    THEN LET t == r * LimbBase + a[lo]
         IN  <<<<t \div d>>, t % d>>
    ELSE LET mid == (lo + hi) \div 2
             high == DivSmallRange(a, d, mid + 1, hi, r)
             low == DivSmallRange(a, d, lo, mid, high[2])
         IN  <<high[1] \o low[1], low[2]>>

Reverse(s) == [i \in 1..Len(s) |-> s[Len(s) + 1 - i]]

\* The number of zero limbs below the lowest nonzero limb of b # 0
LowZeros(b) == MinOf({i \in 1..Len(b) : b[i] # 0}) - 1

\* The long division of a by b # 0, both scaled by f to bring the highest
\* limb of the divisor to LimbBase \div 2 or more: <<quotient, remainder>>
LongDiv(a, b, f) ==
    With(MulSmall(a, f), LAMBDA af :
    With(MulSmall(b, f), LAMBDA bf :
    With(DivRange(af, bf, 1, Len(af), << >>), LAMBDA qr :
        <<Norm(Reverse(qr[1])),
          IF qr[2] = << >> THEN << >>
          ELSE Norm(Reverse(DivSmallRange(qr[2], f, 1, Len(qr[2]), 0)[1]))>>)))

\* a divided by b # 0: <<quotient, remainder>>.  A divisor d * LimbBase^m
\* of one nonzero limb d (as ONE is) is divided by limb by limb.
DivMod(a, b) ==
    With(LowZeros(b), LAMBDA m :
        IF Len(a) < Len(b) THEN << << >>, a>>
        ELSE IF Len(b) # m + 1
        THEN LongDiv(a, b, LimbBase \div (b[Len(b)] + 1))
        ELSE With(DivSmallRange(a, b[m + 1], m + 1, Len(a), 0), LAMBDA qr :
                 <<Norm(Reverse(qr[1])), Norm(SubSeq(a, 1, m) \o <<qr[2]>>)>>))

Div(a, b) == DivMod(a, b)[1]
Rem(a, b) == DivMod(a, b)[2]

RECURSIVE Pow(_, _)
Pow(a, n) ==
    IF n = 0 THEN <<1>>
    ELSE With(Pow(a, n \div 2), LAMBDA h :
         With(Mul(h, h), LAMBDA sq :
             IF n % 2 = 0 THEN sq ELSE Mul(a, sq)))

(***************************************************************************)
(* Results.  Option<T> is Some(v) or None; a panic (a failed assert!, an    *)
(* unwrap of None, an overflowing narrowing cast) is the outcome Panic.    *)
(***************************************************************************)
Some(v) == [tag |-> "Some", v |-> v]
None == [tag |-> "None", v |-> << >>]
Panic == [tag |-> "Panic", v |-> << >>]

IsSome(r) == r.tag = "Some"

\* The ? operator: a result that is not Some leaves the function as it is
Try(r, F(_)) == IF IsSome(r) THEN F(r.v) ELSE r

\* match r { Some(v) => F(v), None => otherwise }
Match(r, F(_), otherwise) == IF IsSome(r) THEN F(r.v) ELSE otherwise

\* Option::unwrap
unwrap(r) == IF IsSome(r) THEN r ELSE Panic

(***************************************************************************)
(* U256 and u128: the values below 2^256 and 2^128, with the checked       *)
(* operations of the uint crate and of the native integers.                *)
(***************************************************************************)
U256Words == 4
WordBits == 64

U256Bound == Pow(FromInt(2), WordBits * U256Words)
U128Bound == Pow(FromInt(2), 2 * WordBits)

\* The result of a checked operation of an integer type with the values
\* below bound, v being the exact result
Checked(v, bound) == IF Lt(v, bound) THEN Some(v) ELSE None

U256_checked_add(a, b) == Checked(Add(a, b), U256Bound)

U256_checked_sub(a, b) ==
    IF Le(b, a) THEN Some(Sub(a, b)) ELSE None

U256_checked_mul(a, b) == Checked(Mul(a, b), U256Bound)

U256_checked_div(a, b) ==
    IF b = << >> THEN None ELSE Some(Div(a, b))

\* U256::as_u128 panics when the value does not fit in 128 bits
as_u128(v) == IF Lt(v, U128Bound) THEN Some(v) ELSE Panic

u128_checked_rem(a, b) == IF b = << >> THEN None ELSE Some(Rem(a, b))
u128_checked_div(a, b) == IF b = << >> THEN None ELSE Some(Div(a, b))

(***************************************************************************)
(* PreciseNumber: its one field, value, is the number times ONE.  A        *)
(* PreciseNumber is modelled by that value.                                *)
(***************************************************************************)
\* 10_000_000_000, in limbs of four decimal digits
ONE == <<0, 0, 100>>

one == ONE
zero == FromInt(0)

rounding_correction == Div(ONE, FromInt(2))

precision == FromInt(100)

MAX_APPROXIMATION_ITERATIONS == 100

min_pow_base == FromInt(1)
max_pow_base == Mul(FromInt(2), ONE)

\* new with the product computed in the native u128
new_in_u128(value) == Checked(Mul(value, one), U128Bound)

new(value) == U256_checked_mul(value, one)

to_imprecise(self) ==
    Try(U256_checked_add(self, rounding_correction), LAMBDA s :
        Match(U256_checked_div(s, one), LAMBDA v : as_u128(v), None))

floor(self) ==
    Try(U256_checked_div(self, one), LAMBDA q : U256_checked_mul(q, one))

checked_div(self, rhs) ==
    IF rhs = zero THEN None
    ELSE Match(U256_checked_mul(self, one),
               LAMBDA v :
                   Try(U256_checked_add(v, rounding_correction), LAMBDA s :
                       U256_checked_div(s, rhs)),
               Try(U256_checked_add(self, rounding_correction), LAMBDA s :
               Try(U256_checked_div(s, rhs), LAMBDA q :
                   U256_checked_mul(q, one))))

\* checked_mul without the fallback for an overflowing product
checked_mul_without_fallback(self, rhs) ==
    Try(U256_checked_mul(self, rhs), LAMBDA m :
    Try(U256_checked_add(m, rounding_correction), LAMBDA s :
        U256_checked_div(s, one)))

checked_mul(self, rhs) ==
    Match(U256_checked_mul(self, rhs),
          LAMBDA v :
              Try(U256_checked_add(v, rounding_correction), LAMBDA s :
                  U256_checked_div(s, one)),
          IF Le(rhs, self)
          THEN Try(U256_checked_div(self, one), LAMBDA q :
                   U256_checked_mul(q, rhs))
          ELSE Try(U256_checked_div(rhs, one), LAMBDA q :
                   U256_checked_mul(q, self)))

checked_add(self, rhs) == U256_checked_add(self, rhs)

checked_sub(self, rhs) == U256_checked_sub(self, rhs)

\* The pair (Self, bool) of the result r and the sign: [tag, v, negative]
Signed(r, negative) == [tag |-> r.tag, v |-> r.v, negative |-> negative]

\* unsigned_sub unwrapping the subtraction that has just failed
unsigned_sub_unwrap_same(self, rhs) ==
    Signed(unwrap(U256_checked_sub(self, rhs)), ~Le(rhs, self))

\* The unwrap may panic
unsigned_sub(self, rhs) ==
    Match(U256_checked_sub(self, rhs),
          LAMBDA v : Signed(Some(v), FALSE),
          Signed(unwrap(U256_checked_sub(rhs, self)), TRUE))

\* almost_eq taking a failed rhs - self for a small difference
almost_eq_one_sided(self, rhs, p) ==
    With(checked_sub(rhs, self), LAMBDA d : ~IsSome(d) \/ Lt(d.v, p))

almost_eq(self, rhs, p) ==
    With(unsigned_sub(self, rhs), LAMBDA d : IsSome(d) /\ Lt(d.v, p))

\* the body of the loop of checked_pow pushing the base before squaring it
checked_pow_step_push_first(result, squared_base, current_exponent) ==
    Try(u128_checked_rem(current_exponent, FromInt(2)), LAMBDA odd :
    Try(IF odd # zero THEN checked_mul(result, squared_base)
                      ELSE Some(result), LAMBDA res :
    Try(checked_mul(squared_base, squared_base), LAMBDA sq :
    Try(u128_checked_div(current_exponent, FromInt(2)), LAMBDA half :
        Some([result |-> res, squared_base |-> sq,
              current_exponent |-> half])))))

\* One body of the while loop of checked_pow: the local variables after it
checked_pow_step(result, squared_base, current_exponent) ==
    Try(checked_mul(squared_base, squared_base), LAMBDA sq :
    Try(u128_checked_rem(current_exponent, FromInt(2)), LAMBDA odd :
    Try(IF odd # zero THEN checked_mul(result, sq) ELSE Some(result), LAMBDA res :
    Try(u128_checked_div(current_exponent, FromInt(2)), LAMBDA half :
        Some([result |-> res, squared_base |-> sq,
              current_exponent |-> half])))))

\* The while loop of checked_pow
RECURSIVE checked_pow_loop(_, _, _)
checked_pow_loop(result, squared_base, current_exponent) ==
    IF current_exponent = zero THEN Some(result)
    ELSE Try(checked_pow_step(result, squared_base, current_exponent),
             LAMBDA l : checked_pow_loop(l.result, l.squared_base,
                                         l.current_exponent))

\* checked_pow starting from 1 for odd exponents too
checked_pow_from_one(self, exponent) ==
    Try(u128_checked_div(exponent, FromInt(2)), LAMBDA half :
        checked_pow_loop(one, self, half))

checked_pow(self, exponent) ==
    Try(u128_checked_rem(exponent, FromInt(2)), LAMBDA parity :
    Try(u128_checked_div(exponent, FromInt(2)), LAMBDA half :
        checked_pow_loop(IF parity = zero THEN one ELSE self, self, half)))

(***************************************************************************)
(* The approximation loops, one loop body at a time.  An entry or a body   *)
(* ends in [ctl, ret, frame]: ctl is "loop" (go on with the local          *)
(* variables in frame), "break" (leave the loop) or "return" (leave the    *)
(* function with ret).                                                     *)
(***************************************************************************)
Exit(r, f) == [ctl |-> "return", ret |-> r, frame |-> f]
Loop(f) == [ctl |-> "loop", ret |-> None, frame |-> f]
Break(f) == [ctl |-> "break", ret |-> None, frame |-> f]

\* The ? operator inside an entry or a loop body
TryIn(r, f, F(_)) == IF IsSome(r) THEN F(r.v) ELSE Exit(r, f)

\* checked_pow_approximation up to its loop
checked_pow_approximation_entry(self, exponent, f) ==
    IF Lt(self, min_pow_base) \/ Lt(max_pow_base, self) THEN Exit(Panic, f)
    ELSE TryIn(new(FromInt(1)), f, LAMBDA o :
         IF exponent = zero THEN Exit(Some(o), f)
         ELSE With(unsigned_sub(self, o), LAMBDA d :
                  IF ~IsSome(d) THEN Exit(Panic, f)
                  ELSE TryIn(checked_add(exponent, o), f, LAMBDA e1 :
                       Loop([f EXCEPT !.k = 1,
                                      !.precise_guess = o,
                                      !.term = o,
                                      !.x_minus_a = d.v,
                                      !.x_minus_a_negative = d.negative,
                                      !.exponent_plus_one = e1,
                                      !.negative = FALSE]))))

\* the range 1..=max_iterations
in_range_inclusive(k, max_iterations) == k <= max_iterations

\* The range of "for k in 1..max_iterations" holds k
in_range(k, max_iterations) == k < max_iterations

\* the sign flipped for exponent + 1 - k only
flip_negative_ignoring_base(negative, x_minus_a_negative, current_exponent_negative) ==
    IF current_exponent_negative THEN ~negative ELSE negative

\* The sign of the next term: flipped when x - 1 is negative, and flipped
\* when exponent + 1 - k is negative
flip_negative(negative, x_minus_a_negative, current_exponent_negative) ==
    LET n1 == IF x_minus_a_negative THEN ~negative ELSE negative
    IN  IF current_exponent_negative THEN ~n1 ELSE n1

\* One body of the loop "for k in 1..max_iterations"
checked_pow_approximation_body(f) ==
    TryIn(new(FromInt(f.k)), f, LAMBDA k :
    With(unsigned_sub(f.exponent_plus_one, k), LAMBDA current_exponent :
    IF ~IsSome(current_exponent) THEN Exit(Panic, f)
    ELSE
    TryIn(checked_mul(f.term, current_exponent.v), f, LAMBDA t1 :
    TryIn(checked_mul(t1, f.x_minus_a), f, LAMBDA t2 :
    TryIn(checked_div(t2, k), f, LAMBDA term :
    IF Lt(term, precision) THEN Break([f EXCEPT !.term = term])
    ELSE With(flip_negative(f.negative, f.x_minus_a_negative,
                            current_exponent.negative), LAMBDA negative :
         TryIn(IF negative THEN checked_sub(f.precise_guess, term)
                           ELSE checked_add(f.precise_guess, term), f,
               LAMBDA guess :
                   Loop([f EXCEPT !.k = f.k + 1,
                                  !.term = term,
                                  !.negative = negative,
                                  !.precise_guess = guess]))))))))

\* checked_pow_fraction up to the loop of the checked_pow_approximation it
\* calls; precise_whole is kept for the product after that loop
checked_pow_fraction_entry(self, exponent, f) ==
    IF Lt(self, min_pow_base) \/ Lt(max_pow_base, self) THEN Exit(Panic, f)
    ELSE TryIn(floor(exponent), f, LAMBDA whole_exponent :
         TryIn(to_imprecise(whole_exponent), f, LAMBDA whole :
         TryIn(checked_pow(self, whole), f, LAMBDA precise_whole :
         With(unsigned_sub(exponent, whole_exponent), LAMBDA r :
             IF ~IsSome(r) \/ r.negative THEN Exit(Panic, f)
             ELSE IF r.v = FromInt(0) THEN Exit(Some(precise_whole), f)
             ELSE checked_pow_approximation_entry(
                      self, r.v, [f EXCEPT !.precise_whole = precise_whole])))))

\* What the caller gets once checked_pow_approximation has returned r
checked_pow_result(name, r, f) ==
    IF name = "checked_pow_fraction"
    THEN Try(r, LAMBDA precise_remainder :
                    checked_mul(f.precise_whole, precise_remainder))
    ELSE r

\* newtonian_root_approximation up to its loop
newtonian_root_approximation_entry(self, root, guess, f) ==
    IF root = zero THEN Exit(None, f)
    ELSE TryIn(new(FromInt(1)), f, LAMBDA o :
         TryIn(checked_sub(root, o), f, LAMBDA root_minus_one :
         TryIn(to_imprecise(root_minus_one), f, LAMBDA root_minus_one_whole :
             Loop([f EXCEPT !.k = 0,
                            !.guess = guess,
                            !.last_guess = guess,
                            !.root_minus_one = root_minus_one,
                            !.root_minus_one_whole = root_minus_one_whole]))))

\* The range of "for _ in 0..MAX_APPROXIMATION_ITERATIONS" holds k
in_newton_range(k) == k < MAX_APPROXIMATION_ITERATIONS

\* One body of the loop "for _ in 0..MAX_APPROXIMATION_ITERATIONS"
newtonian_root_approximation_body(self, root, f) ==
    TryIn(checked_mul(f.root_minus_one, f.guess), f, LAMBDA first_term :
    With(checked_pow(f.guess, f.root_minus_one_whole), LAMBDA power :
        TryIn(Match(power, LAMBDA num : checked_div(self, num),
                    new(FromInt(0))), f, LAMBDA second_term :
        TryIn(checked_add(first_term, second_term), f, LAMBDA sum :
        TryIn(checked_div(sum, root), f, LAMBDA guess :
            IF almost_eq(f.last_guess, guess, precision)
            THEN Break([f EXCEPT !.guess = guess])
            ELSE Loop([f EXCEPT !.k = f.k + 1,
                                !.guess = guess,
                                !.last_guess = guess]))))))

(***************************************************************************)
(* The state: one call at a time.  pc is the position of the caller: idle, *)
(* inside an approximation loop, or done with the result in ret.  op names *)
(* the function called, args holds its arguments, frame holds the local    *)
(* variables of a running approximation loop and iters counts the loop     *)
(* bodies it has entered.                                                  *)
(***************************************************************************)
VARIABLES pc, op, args, ret, frame, iters

vars == <<pc, op, args, ret, frame, iters>>

NoArgs == [self |-> zero]
NoFrame ==
    [k |-> 0, term |-> zero, precise_guess |-> zero, negative |-> FALSE,
     x_minus_a |-> zero, x_minus_a_negative |-> FALSE,
     exponent_plus_one |-> zero, precise_whole |-> zero,
     guess |-> zero, last_guess |-> zero,
     root_minus_one |-> zero, root_minus_one_whole |-> zero]

(***************************************************************************)
(* Bounds of the inputs the calls are made with.                           *)
(***************************************************************************)
MaxSmall == 3
MaxMant == 2
MaxExp == 10

Pow2(k) == Pow(FromInt(2), k)

\* raw values 0, 1, 2, ... next to zero
SmallInputs == {FromInt(i) : i \in 0..MaxSmall}

\* native integers: small ones, the ones around 2^64 and the largest ones
NativeInputs ==
    SmallInputs
    \cup {Mul(FromInt(m), Pow2(WordBits)) : m \in 1..MaxMant}
    \cup {Sub(U128Bound, FromInt(i)) : i \in 1..MaxSmall}

\* raw PreciseNumber values: next to zero, whole numbers and their
\* neighbours, halves, multiples of 2^64, 2^128 and 2^192, the scaled
\* largest native integer and its successor, and the largest U256 values
WideInputs ==
    SmallInputs
    \cup {Mul(FromInt(i), ONE) : i \in 1..MaxSmall}
    \cup {Add(ONE, FromInt(i)) : i \in 1..MaxSmall}
    \cup {Sub(ONE, FromInt(i)) : i \in 1..MaxSmall}
    \cup {Div(Mul(FromInt(2 * i - 1), ONE), FromInt(2)) : i \in 1..MaxMant}
    \cup {Mul(FromInt(m), Pow2(WordBits * w)) : m \in 1..MaxMant, w \in 1..(U256Words - 1)}
    \cup {Mul(Sub(U128Bound, FromInt(1)), ONE), Mul(U128Bound, ONE)}
    \cup {Sub(U256Bound, FromInt(i)) : i \in 1..MaxSmall}

\* bases of checked_pow: whole numbers small and large, and fractions
PowBases ==
    {Mul(FromInt(i), ONE) : i \in 0..MaxSmall}
    \cup {Mul(Pow2((WordBits \div 2) * w), ONE) : w \in 1..(U256Words - 1)}
    \cup {Mul(Pow2(100), ONE)}
    \cup {Div(Mul(FromInt(2 * i - 1), ONE), FromInt(2)) : i \in 1..MaxMant}
    \cup {FromInt(1), Sub(U256Bound, FromInt(1))}

PowExponents == {FromInt(e) : e \in 0..MaxExp}

(***************************************************************************)
(* The calls of the arithmetic core, each one whole call.                  *)
(***************************************************************************)
Init ==
    /\ pc = "idle"
    /\ op = "none"
    /\ args = NoArgs
    /\ ret = None
    /\ frame = NoFrame
    /\ iters = 0

\* A call returns: the caller holds the result
Returned(name, a, r) ==
    /\ pc' = "done"
    /\ op' = name
    /\ args' = a
    /\ ret' = r
    /\ UNCHANGED <<frame, iters>>

New ==
    \E x \in NativeInputs :
        /\ pc = "idle"
        /\ Returned("new", [value |-> x], new(x))

\* to_imprecise applied to the number the preceding new returned
ToImpreciseOfNew ==
    /\ pc = "done"
    /\ op = "new"
    /\ IsSome(ret)
    /\ op' = "to_imprecise_of_new"
    /\ ret' = to_imprecise(ret.v)
    /\ UNCHANGED <<pc, args, frame, iters>>

ToImprecise ==
    \E x \in WideInputs :
        /\ pc = "idle"
        /\ Returned("to_imprecise", [self |-> x], to_imprecise(x))

CheckedMul ==
    \E a \in WideInputs, b \in WideInputs :
        /\ pc = "idle"
        /\ Returned("checked_mul", [self |-> a, rhs |-> b], checked_mul(a, b))

CheckedDiv ==
    \E a \in WideInputs, b \in WideInputs :
        /\ pc = "idle"
        /\ Returned("checked_div", [self |-> a, rhs |-> b], checked_div(a, b))

UnsignedSub ==
    \E a \in WideInputs, b \in WideInputs :
        /\ pc = "idle"
        /\ Returned("unsigned_sub", [self |-> a, rhs |-> b], unsigned_sub(a, b))

CheckedPow ==
    \E x \in PowBases, e \in PowExponents :
        /\ pc = "idle"
        /\ Returned("checked_pow", [self |-> x, exponent |-> e], checked_pow(x, e))

Return ==
    /\ pc = "done"
    /\ pc' = "idle"
    /\ op' = "none"
    /\ args' = NoArgs
    /\ ret' = None
    /\ frame' = NoFrame
    /\ iters' = 0

Next ==
    \/ New
    \/ ToImpreciseOfNew
    \/ ToImprecise
    \/ CheckedMul
    \/ CheckedDiv
    \/ UnsignedSub
    \/ CheckedPow
    \/ Return

Spec == Init /\ [][Next]_vars

(***************************************************************************)
(* The calls of the approximation routines.  A call runs up to its loop,   *)
(* then one loop body per step, and returns when the loop breaks, when its *)
(* range is exhausted or when a body leaves the function.                  *)
(***************************************************************************)
Grid == 4
ExtraIterations == 2
MaxA == 8
MaxRoot == 9

\* the fraction i / Grid as a raw value
Fraction(i) == Div(Mul(FromInt(i), ONE), FromInt(Grid))

\* bases: next to 0, the fractions up to 2.0, next to 1.0 on both sides,
\* next to 2.0, and 0 and 2.0 + 1 raw unit, which are outside the domain
TaylorBases ==
    {FromInt(i) : i \in 0..MaxSmall}
    \cup {Fraction(i) : i \in 1..(2 * Grid)}
    \cup {Add(ONE, FromInt(i)) : i \in 1..MaxSmall}
    \cup {Sub(ONE, FromInt(i)) : i \in 1..MaxSmall}
    \cup {Sub(max_pow_base, FromInt(1)), Add(max_pow_base, FromInt(1))}
    \cup {Add(ONE, Mul(FromInt(i), precision)) : i \in 1..MaxMant}

\* exponents below 1.0: 0, the fractions, next to 0 and next to 1.0
TaylorExponents ==
    {Fraction(i) : i \in 0..(Grid - 1)}
    \cup {FromInt(i) : i \in 1..MaxMant}
    \cup {Sub(ONE, FromInt(i)) : i \in 1..MaxMant}

\* exponents of checked_pow_fraction: the fractions up to 2.0 and 5.4
FractionExponents ==
    {Fraction(i) : i \in 0..(2 * Grid)}
    \cup {Div(Mul(FromInt(27), ONE), FromInt(5))}

IterationCaps ==
    {0, 1, MAX_APPROXIMATION_ITERATIONS,
     MAX_APPROXIMATION_ITERATIONS + ExtraIterations}

\* the numbers and roots of test_newtonian_approximation
TestedRoots ==
    {<<9, 2>>, <<101, 2>>, <<1000000000, 2>>, <<500, 5>>}

NewtonInputs ==
    TestedRoots \cup ((1..MaxA) \X (0..MaxRoot))

\* What a call or a loop body leads to: the loop, or the return to the
\* caller
Proceed(name, a, e) ==
    /\ op' = name
    /\ args' = a
    /\ frame' = e.frame
    /\ IF e.ctl = "loop"
       THEN /\ pc' = "loop"
            /\ ret' = None
       ELSE /\ pc' = "done"
            /\ ret' = e.ret

PowApproximationCall ==
    \E x \in TaylorBases, e \in TaylorExponents, m \in IterationCaps :
        /\ pc = "idle"
        /\ iters' = 0
        /\ Proceed("checked_pow_approximation",
                   [self |-> x, exponent |-> e, max_iterations |-> m],
                   checked_pow_approximation_entry(x, e, NoFrame))

PowFractionCall ==
    \E x \in TaylorBases, e \in FractionExponents :
        /\ pc = "idle"
        /\ iters' = 0
        /\ Proceed("checked_pow_fraction",
                   [self |-> x, exponent |-> e,
                    max_iterations |-> MAX_APPROXIMATION_ITERATIONS],
                   checked_pow_fraction_entry(x, e, NoFrame))

InTaylorLoop ==
    /\ pc = "loop"
    /\ op \in {"checked_pow_approximation", "checked_pow_fraction"}

\* The body of the loop for the next k, and the return after a break
PowApproximationStep ==
    /\ InTaylorLoop
    /\ in_range(frame.k, args.max_iterations)
    /\ iters' = iters + 1
    /\ Proceed(op, args,
               With(checked_pow_approximation_body(frame), LAMBDA b :
                   IF b.ctl = "break"
                   THEN Exit(checked_pow_result(op, Some(b.frame.precise_guess),
                                                b.frame), b.frame)
                   ELSE IF b.ctl = "return"
                   THEN Exit(checked_pow_result(op, b.ret, b.frame), b.frame)
                   ELSE b))

\* The range 1..max_iterations is exhausted
PowApproximationExhausted ==
    /\ InTaylorLoop
    /\ ~in_range(frame.k, args.max_iterations)
    /\ Proceed(op, args,
               Exit(checked_pow_result(op, Some(frame.precise_guess), frame),
                    frame))
    /\ UNCHANGED iters

\* The guess of the tests: new(A) / new(n), and new(A) itself for the root 0
first_guess(self, root) ==
    IF root = zero THEN Some(self) ELSE unwrap(checked_div(self, root))

\* The call with the numbers self, root and guess that new and checked_div
\* returned for A and n
NewtonCallWith(A, n, self, root, guess) ==
    /\ IsSome(self) /\ IsSome(root) /\ IsSome(guess)
    /\ iters' = 0
    /\ Proceed("newtonian_root_approximation",
               [self |-> self.v, root |-> root.v, guess |-> guess.v,
                A |-> A, n |-> n],
               newtonian_root_approximation_entry(
                   self.v, root.v, guess.v, NoFrame))

\* The call the tests make: new(A), new(n) and the guess new(A) / new(n)
NewtonCall ==
    \E t \in NewtonInputs :
        /\ pc = "idle"
        /\ NewtonCallWith(t[1], t[2],
                          unwrap(new(FromInt(t[1]))), unwrap(new(FromInt(t[2]))),
                          first_guess(new(FromInt(t[1])).v, new(FromInt(t[2])).v))

InNewtonLoop ==
    /\ pc = "loop"
    /\ op = "newtonian_root_approximation"

NewtonStep ==
    /\ InNewtonLoop
    /\ in_newton_range(frame.k)
    /\ iters' = iters + 1
    /\ Proceed(op, args,
               With(newtonian_root_approximation_body(args.self, args.root,
                                                      frame), LAMBDA b :
                   IF b.ctl = "break" THEN Exit(Some(b.frame.guess), b.frame)
                   ELSE b))

\* The range 0..MAX_APPROXIMATION_ITERATIONS is exhausted
NewtonExhausted ==
    /\ InNewtonLoop
    /\ ~in_newton_range(frame.k)
    /\ Proceed(op, args, Exit(Some(frame.guess), frame))
    /\ UNCHANGED iters

NextApprox ==
    \/ PowApproximationCall
    \/ PowFractionCall
    \/ PowApproximationStep
    \/ PowApproximationExhausted
    \/ NewtonCall
    \/ NewtonStep
    \/ NewtonExhausted
    \/ Return

SpecApprox == Init /\ [][NextApprox]_vars

(***************************************************************************)
(* Properties of the arithmetic core, under Spec.                          *)
(***************************************************************************)
\* the value of a small natural number as a TLC integer
RECURSIVE ToInt(_)
ToInt(a) == IF a = << >> THEN 0 ELSE a[1] + LimbBase * ToInt(Tail(a))

\* b multiplied by itself e times, starting from 1
RECURSIVE RepeatedProduct(_, _)
RepeatedProduct(b, e) ==
    IF e = 0 THEN FromInt(1) ELSE Mul(b, RepeatedProduct(b, e - 1))

Larger(a, b) == IF Le(b, a) THEN a ELSE b
Smaller(a, b) == IF Le(b, a) THEN b ELSE a
AbsDiff(a, b) == Sub(Larger(a, b), Smaller(a, b))

\* C1: for every u128 x, new(x) returns a value, and to_imprecise of that
\* value returns exactly x.
C1_RoundTrip ==
    /\ op = "new" => IsSome(ret)
    /\ op = "to_imprecise_of_new" => ret = Some(args.value)

\* the round trip of the largest u128 has been made
C1_Witness ==
    /\ op = "to_imprecise_of_new"
    /\ args.value = Sub(U128Bound, FromInt(1))
    /\ IsSome(ret)

\* checked_mul was called with operands whose raw product overflows U256
MulOverflows ==
    /\ op = "checked_mul"
    /\ ~Lt(Mul(args.self, args.rhs), U256Bound)

\* (max(a, b) / ONE, truncated) * min(a, b)
FallbackProduct ==
    Mul(Div(Larger(args.self, args.rhs), ONE), Smaller(args.self, args.rhs))

\* C2 as stated: checked_mul never panics, and whenever the raw product
\* overflows, the fallback returns a defined result, equal to
\* (max / ONE) * min.
C2_FallbackAlwaysDefined ==
    /\ op = "checked_mul" => ret.tag # "Panic"
    /\ MulOverflows => ret = Some(FallbackProduct)

\* C2 amended: checked_mul never panics, and whenever the raw product
\* overflows, the fallback returns (max / ONE) * min when that product fits
\* in the U256, and no result when it does not.
C2_FallbackDefinedWhenItFits ==
    /\ op = "checked_mul" => ret.tag # "Panic"
    /\ MulOverflows =>
           IF Lt(FallbackProduct, U256Bound)
           THEN ret = Some(FallbackProduct)
           ELSE ret = None

\* the fallback path was taken and returned a result
C2_Witness == MulOverflows /\ IsSome(ret)

\* C3: to_imprecise returns no result (it neither aborts nor truncates)
\* when value + ONE/2 overflows the U256 and when (value + ONE/2) / ONE does
\* not fit in 128 bits.
C3_FailureIsAbsent ==
    op = "to_imprecise" =>
        LET s == Add(args.self, Div(ONE, FromInt(2)))
        IN  (~Lt(s, U256Bound) \/ ~Lt(Div(s, ONE), U128Bound)) => ret = None

\* C5: checked_pow(x, 0) is exactly 1.0 and checked_pow(x, 1) is exactly x,
\* and neither is absent.
C5_PowZeroAndOne ==
    op = "checked_pow" =>
        /\ args.exponent = FromInt(0) => ret = Some(ONE)
        /\ args.exponent = FromInt(1) => ret = Some(args.self)

\* the largest U256 value was raised to the power 1
C5_Witness ==
    /\ op = "checked_pow"
    /\ args.exponent = FromInt(1)
    /\ args.self = Sub(U256Bound, FromInt(1))
    /\ IsSome(ret)

\* C6: for a whole-number base b and an exponent e, a result of checked_pow
\* is exactly new(b^e), b^e being e exact multiplications by b.
C6_PowExact ==
    (op = "checked_pow" /\ Rem(args.self, ONE) = zero /\ IsSome(ret)) =>
        ret.v = Mul(RepeatedProduct(Div(args.self, ONE), ToInt(args.exponent)), ONE)

\* checked_pow(2, 10) returned 1024
C6_Witness ==
    /\ op = "checked_pow"
    /\ args.self = Mul(FromInt(2), ONE)
    /\ args.exponent = FromInt(10)
    /\ ret = Some(Mul(FromInt(1024), ONE))

\* C7: unsigned_sub never fails; unsigned_sub(a, b) and unsigned_sub(b, a)
\* return the same magnitude |a - b|, with opposite flags when a # b, the
\* flag being true exactly when the right operand is the larger one, and
\* the magnitude is 0 when a = b.
C7_UnsignedSub ==
    op = "unsigned_sub" =>
        LET swapped == unsigned_sub(args.rhs, args.self)
        IN  /\ IsSome(ret)
            /\ IsSome(swapped)
            /\ ret.v = AbsDiff(args.self, args.rhs)
            /\ swapped.v = ret.v
            /\ ret.negative <=> Lt(args.self, args.rhs)
            /\ args.self # args.rhs => swapped.negative # ret.negative
            /\ args.self = args.rhs => ret.v = zero

\* a smaller number had a larger one subtracted from it
C7_Witness ==
    /\ op = "unsigned_sub"
    /\ Lt(args.self, args.rhs)
    /\ IsSome(ret)
    /\ ret.negative

\* C9: on the primary path, checked_div(a, b) is a/b rounded to the nearest
\* raw unit: |r * b - a * ONE| <= b / 2.
C9_DivRoundsToNearest ==
    (/\ op = "checked_div"
     /\ args.rhs # zero
     /\ Lt(Mul(args.self, ONE), U256Bound)
     /\ IsSome(ret)) =>
        Le(Mul(FromInt(2), AbsDiff(Mul(ret.v, args.rhs), Mul(args.self, ONE))),
           args.rhs)

(***************************************************************************)
(* Properties of the approximation routines, under SpecApprox.             *)
(***************************************************************************)
InTaylor == op \in {"checked_pow_approximation", "checked_pow_fraction"}
InNewton == op = "newtonian_root_approximation"

\* C4 as stated: no call of checked_pow_approximation, checked_pow_fraction
\* or newtonian_root_approximation enters more than
\* MAX_APPROXIMATION_ITERATIONS loop bodies, whatever max_iterations the
\* caller of checked_pow_approximation passes.
C4_AtMostMaxIterations == iters <= MAX_APPROXIMATION_ITERATIONS

\* A loop goes on to another body only when its convergence test failed:
\* the Taylor term is not below precision, the Newton guesses differ by not
\* less than precision.
StopsOnConvergence ==
    (pc = "loop" /\ pc' = "loop" /\ iters' = iters + 1) =>
        /\ InTaylor => ~Lt(frame'.term, precision)
        /\ InNewton =>
               ~Lt(AbsDiff(frame.last_guess, frame'.guess), precision)

\* C4 amended: checked_pow_approximation enters at most max_iterations - 1
\* loop bodies, which is at most MAX_APPROXIMATION_ITERATIONS - 1 when
\* max_iterations is MAX_APPROXIMATION_ITERATIONS, as in checked_pow_fraction;
\* newtonian_root_approximation enters at most
\* MAX_APPROXIMATION_ITERATIONS; and each loop stops as soon as its
\* convergence test holds.
C4_BoundedByCap ==
    /\ [](/\ InTaylor => iters <= Max2(args.max_iterations - 1, 0)
          /\ op = "checked_pow_fraction" =>
                 iters <= MAX_APPROXIMATION_ITERATIONS - 1
          /\ InNewton => iters <= MAX_APPROXIMATION_ITERATIONS)
    /\ [][StopsOnConvergence]_vars

\* a caller's cap above MAX_APPROXIMATION_ITERATIONS was used up
C4_Witness ==
    /\ pc = "done"
    /\ op = "checked_pow_approximation"
    /\ args.max_iterations > MAX_APPROXIMATION_ITERATIONS
    /\ iters = args.max_iterations - 1
    /\ IsSome(ret)

\* r is the n-th root of A rounded to the nearest integer:
\* (2r - 1)^n <= 2^n * A < (2r + 1)^n
IsNearestRoot(r, A, n) ==
    LET scaled == Mul(Pow(FromInt(2), n), A)
        twice == Mul(FromInt(2), r)
    IN  /\ r # zero
        /\ Le(Pow(Sub(twice, FromInt(1)), n), scaled)
        /\ Lt(scaled, Pow(Add(twice, FromInt(1)), n))

\* newtonian_root_approximation has returned to the test's call for the
\* n-th root of A, and its result converts to the rounded root
NewtonFoundRoot ==
    /\ IsSome(ret)
    /\ LET r == to_imprecise(ret.v)
       IN  IsSome(r) /\ IsNearestRoot(r.v, FromInt(args.A), args.n)

\* C8 as stated: for a positive integer A and a root n >= 2, the call with
\* the guess new(A) / new(n) returns the n-th root of A rounded to the
\* nearest integer.
C8_NewtonRoundedRoot ==
    (pc = "done" /\ InNewton /\ args.A >= 1 /\ args.n >= 2) => NewtonFoundRoot

\* C8 amended: the call returns the rounded root for the tested instances
\* (9, 2) -> 3, (101, 2) -> 10, (1_000_000_000, 2) -> 31_623 and
\* (500, 5) -> 3, and for the roots 2 to 8 of the positive integers up to
\* MaxA.
C8_NewtonTestedRoots ==
    (pc = "done" /\ InNewton /\ args.A >= 1 /\ args.n >= 2) =>
        /\ <<args.A, args.n>> \in TestedRoots => NewtonFoundRoot
        /\ (args.A <= MaxA /\ args.n <= 8) => NewtonFoundRoot
        /\ <<args.A, args.n>> = <<1000000000, 2>> =>
               to_imprecise(ret.v) = Some(FromInt(31623))
        /\ <<args.A, args.n>> = <<101, 2>> =>
               to_imprecise(ret.v) = Some(FromInt(10))

\* the square root of 1_000_000_000 was returned as 31_623
C8_Witness ==
    /\ pc = "done"
    /\ InNewton
    /\ <<args.A, args.n>> = <<1000000000, 2>>
    /\ IsSome(ret)
    /\ to_imprecise(ret.v) = Some(FromInt(31623))

\* C10: with the base in [min_pow_base, max_pow_base], the exponent in
\* [0, 1.0) and the cap MAX_APPROXIMATION_ITERATIONS,
\* checked_pow_approximation returns a result, on the same side of 1.0 as
\* the base, and exactly 1.0 for the exponent 0.
C10_SameSideOfOne ==
    (/\ pc = "done"
     /\ op = "checked_pow_approximation"
     /\ args.max_iterations = MAX_APPROXIMATION_ITERATIONS
     /\ Le(min_pow_base, args.self) /\ Le(args.self, max_pow_base)
     /\ Lt(args.exponent, ONE)) =>
        /\ IsSome(ret)
        /\ Le(args.self, ONE) => Le(ret.v, ONE)
        /\ Le(ONE, args.self) => Le(ONE, ret.v)
        /\ args.exponent = zero => ret.v = ONE

\* a base below 1.0 was raised to a fraction by several subtracted terms
C10_Witness ==
    /\ pc = "done"
    /\ op = "checked_pow_approximation"
    /\ args.max_iterations = MAX_APPROXIMATION_ITERATIONS
    /\ Lt(args.self, ONE)
    /\ args.exponent # zero
    /\ iters > 2
    /\ IsSome(ret)
    /\ Lt(ret.v, ONE)

====
